---- MODULE Spec2Model ----
(***************************************************************************)
(* State-machine model of src/src/App.tsx, which holds two versions of    *)
(* the App component: the filter version (lines 22-215) and the           *)
(* class-highlight version (lines 277-1109).  The variable `version`      *)
(* says which one is mounted.  React state and refs are variables, the    *)
(* web-ifc-viewer library is modelled by the part of its state the App    *)
(* reads or writes, and every async handler is a task that advances from  *)
(* one await to the next in one atomic step.                              *)
(***************************************************************************)
EXTENDS Integers, Sequences, FiniteSets, TLC

\* ------------------------------------------------------------- bounds
MaxModels == 3      \* models the library may hold (successful loads)
MaxTasks == 2       \* async handlers in flight at once
MaxPlanes == 1      \* section planes the clipper may hold
MaxEvents == 5      \* user events (handler invocations) in one run

\* ---------------------------------------------------------- constants
NoModel == -1                       \* modelID === null / a ref holding null
NoType == "null"                    \* selectedClassType === null
IFCWALL == "IFCWALL"
IFCSLAB == "IFCSLAB"
IFCPRODUCT == "IFCPRODUCT"
IFCOTHER == "IFCOTHER"              \* a product class outside the lists
\* The class lists, cut down to the classes the modelled files hold.
FILTERS == <<IFCWALL, IFCSLAB>>
IFC_CLASS_LIST == <<IFCWALL, IFCSLAB>>
Files == {"a.ifc", "b.ifc"}
Versions == {"filter", "highlight"}

SeqToSet(s) == {s[i] : i \in 1..Len(s)}

\* Status strings.
StatusInitial == <<"Load an IFC file to begin.">>
StatusLoading == <<"Loading IFC...">>
StatusFailed == <<"Failed to load IFC.">>
StatusLoaded(file) == <<"Loaded: ", file>>

\* ------------------------------------------------- the IFC file contents
\* The first file loaded holds three products with express ids 1..3: a
\* wall, a slab and one product of a class that is in no class list.  Every
\* later model m holds a single wall, m+1, so express ids of different models
\* overlap.
ModelIds == 0..(MaxModels - 1)
ExpressIds(m) == IF m = 0 THEN {1, 2, 3} ELSE {m + 1}
TypeOf(m, id) ==
  CASE id - m = 1 -> IFCWALL
    [] id - m = 2 -> IFCSLAB
    [] OTHER -> IFCOTHER
AllExpressIds == UNION {ExpressIds(m) : m \in ModelIds}

\* viewer.IFC.getAllItemsOfType(modelID, type, false): the express ids whose
\* class is exactly `type`; for the abstract IFCPRODUCT the library answers
\* either with every product (inherited) or with nothing (exact match).
GetAllItemsOfType(m, type, inherited) ==
  IF type = IFCPRODUCT
    THEN (IF inherited THEN ExpressIds(m) ELSE {})
    ELSE {id \in ExpressIds(m) : TypeOf(m, id) = type}

\* normalizeIds keeps the items that are numbers (verbose=false gives numbers).
normalizeIds(items) == {i \in items : i \in Int}

\* Materials: opacity in percent.
OrigMaterial(m) ==
  IF m % 2 = 0
    THEN [opacity |-> 100, transparent |-> FALSE, depthWrite |-> TRUE]
    ELSE [opacity |-> 50, transparent |-> TRUE, depthWrite |-> TRUE]
FadedMaterial(opacity) ==
  [opacity |-> opacity, transparent |-> TRUE, depthWrite |-> FALSE]
FadeOpacity == 20

EmptyMap == [x \in {} |-> {}]

VARIABLES
  version,            \* which App is mounted
  viewer,             \* viewerRef.current !== null
  \* React state
  modelID, status, properties, clipEnabled,
  hiddenTypes,        \* filter version: the types whose flag is true
  placingPlane, classCounts, selectedClassType, contextMenu,
  \* refs
  placingPlaneRef, selectedItemRef, highlightSubsetRef, transparencyCache,
  hiddenIdsRef, visibleSubsetRef, allProductIdsRef, typeCacheRef,
  \* library state
  numModels,          \* viewer.context.items.ifcModels holds models 0..numModels-1
  modelVisible,       \* model.visible
  pickables,          \* viewer.context.items.pickableIfcModels
  visSubset,          \* ids of the subset with customID 'visible', per model
  hlSubset,           \* ids of the subset with customID 'class-highlight', per model
  materials,          \* the material of each model (shared by its subsets)
  clipperActive, planes,
  selection,          \* the selector holds a picked item
  itemsHidden,        \* filter version: ids hidden by hideItems, per model
  \* execution
  tasks,              \* async handlers in flight
  events,             \* user events so far
  last,               \* the handler step taken last
  lastInspect         \* what the latest inspecting click resolved to

reactVars == <<modelID, status, properties, clipEnabled, hiddenTypes,
               placingPlane, classCounts, selectedClassType, contextMenu>>
refVars == <<placingPlaneRef, selectedItemRef, highlightSubsetRef,
             transparencyCache, hiddenIdsRef, visibleSubsetRef,
             allProductIdsRef, typeCacheRef>>
libVars == <<numModels, modelVisible, pickables, visSubset, hlSubset,
             materials, clipperActive, planes, selection, itemsHidden>>
vars == <<version, viewer, reactVars, refVars, libVars, tasks, events, last,
          lastInspect>>

\* Groups used in UNCHANGED.
filterVars == <<hiddenTypes, itemsHidden>>
clipVars == <<clipEnabled, clipperActive>>
planeVars == <<placingPlane, placingPlaneRef, planes>>
hlVars == <<selectedClassType, highlightSubsetRef, hlSubset, materials,
            transparencyCache>>
visVars == <<hiddenIdsRef, visibleSubsetRef, visSubset, modelVisible,
             pickables>>
cacheVars == <<allProductIdsRef, typeCacheRef>>
menuVars == <<contextMenu, selectedItemRef>>
loadVars == <<modelID, status, numModels, classCounts>>
propVars == <<properties, selection, lastInspect>>

\* ------------------------------------------------------------- tasks
Slots == 1..MaxTasks
IdleTask == [op |-> "idle", pc |-> "idle", mid |-> NoModel, sct |-> NoType,
             ty |-> NoType, arg |-> "", sel |-> <<>>, fresh |-> FALSE]
NewTask(op, pc, mid, sct, ty, arg, sel) ==
  [op |-> op, pc |-> pc, mid |-> mid, sct |-> sct, ty |-> ty, arg |-> arg,
   sel |-> sel, fresh |-> TRUE]
IsIdle(i) == tasks[i].op = "idle"
HasFree == \E i \in Slots : IsIdle(i)
FreeSlot == CHOOSE i \in Slots : IsIdle(i) /\ \A j \in Slots : IsIdle(j) => i <= j
AllIdle == \A i \in Slots : IsIdle(i)
Step(op, mid, arg, res, fresh) ==
  [op |-> op, mid |-> mid, arg |-> arg, res |-> res, fresh |-> fresh, id |-> 0]
\* The step that completes handleHideSelected for express id `id`.
HideStep(mid, id, res) ==
  [Step("handleHideSelected", mid, "", res, TRUE) EXCEPT !.id = id]
\* Steps no property below looks at leave no trace.
NoStep == Step("", NoModel, "", "", FALSE)
\* Starting a task in the free slot.  The flag `fresh` of a click task says
\* that no later click and no later load has started; the flag of a load task
\* says that no other load was in flight while it ran.  `older` are the ops
\* whose tasks lose the flag.
Spawn(t, older) ==
  [i \in Slots |->
     IF i = FreeSlot THEN t
     ELSE IF tasks[i].op \in older THEN [tasks[i] EXCEPT !.fresh = FALSE]
     ELSE tasks[i]]
Finish(i) == [tasks EXCEPT ![i] = IdleTask]

\* ------------------------------------------- class-highlight helpers
\* The refs and library state a highlight reads and writes.
HlState ==
  [ref |-> highlightSubsetRef, hl |-> hlSubset, mats |-> materials,
   cache |-> transparencyCache, sct |-> selectedClassType]

\* The model whose material array a mesh carries (a subset shares the
\* materials of its model).
MeshModel(mesh) == mesh[2]

\* setMeshTransparency (815-831): caches each material once, then fades it.
setMeshTransparency(st, mesh, opacity) ==
  LET k == MeshModel(mesh)
  IN [st EXCEPT
        !.cache = IF k \in DOMAIN st.cache THEN st.cache
                  ELSE (k :> st.mats[k]) @@ st.cache,
        !.mats = [st.mats EXCEPT ![k] = FadedMaterial(opacity)]]

\* restoreMeshTransparency (833-844): puts the cached values back.
restoreMeshTransparency(st, mesh) ==
  LET k == MeshModel(mesh)
  IN IF k \in DOMAIN st.cache
       THEN [st EXCEPT !.mats = [st.mats EXCEPT ![k] = st.cache[k]]]
       ELSE st

\* getDisplayMesh (846-851).
getDisplayMesh(visRef, m) ==
  IF visRef # NoModel THEN <<"visible", visRef>> ELSE <<"model", m>>

\* A faulty variant of clearClassHighlight: setSelectedClassType(null) of
\* 864 is missing.
clearClassHighlightKeepsType(st, visRef, m) ==
  LET removed == IF st.ref # NoModel
                   THEN [st EXCEPT !.hl = [st.hl EXCEPT ![m] = {}],
                                   !.ref = NoModel]
                   ELSE st
  IN restoreMeshTransparency(removed, getDisplayMesh(visRef, m))

\* clearClassHighlight (853-865).
clearClassHighlight(st, visRef, m) ==
  LET removed == IF st.ref # NoModel
                   THEN [st EXCEPT !.hl = [st.hl EXCEPT ![m] = {}],
                                   !.ref = NoModel]
                   ELSE st
      restored == restoreMeshTransparency(removed, getDisplayMesh(visRef, m))
  IN [restored EXCEPT !.sct = NoType]

\* applyClassHighlight (868-906) from the point where getTypeIds has
\* answered `ids`; subsetOk says whether createSubset returned a subset.
applyClassHighlight(st, visRef, m, type, ids, subsetOk) ==
  LET cleared == clearClassHighlight(st, visRef, m)
      created == IF subsetOk
                   THEN [cleared EXCEPT !.hl = [cleared.hl EXCEPT ![m] = ids],
                                        !.ref = m]
                   ELSE cleared
      faded == setMeshTransparency(created, getDisplayMesh(visRef, m),
                                   FadeOpacity)
  IN IF ids = {} THEN cleared ELSE [faded EXCEPT !.sct = type]

SetHl(st) ==
  /\ highlightSubsetRef' = st.ref
  /\ hlSubset' = st.hl
  /\ materials' = st.mats
  /\ transparencyCache' = st.cache
  /\ selectedClassType' = st.sct

\* updateClassCounts (451-469): one entry per class of IFC_CLASS_LIST with a
\* positive count, sorted by descending count (stable).
CountOf(m, type) == Cardinality(normalizeIds(GetAllItemsOfType(m, type, FALSE)))
RECURSIVE InsertByCount(_, _)
InsertByCount(sorted, e) ==
  IF sorted = <<>> THEN <<e>>
  ELSE IF Head(sorted).count >= e.count
    THEN <<Head(sorted)>> \o InsertByCount(Tail(sorted), e)
    ELSE <<e>> \o sorted
RECURSIVE SortByCount(_)
SortByCount(s) ==
  IF s = <<>> THEN <<>>
  ELSE InsertByCount(SortByCount(SubSeq(s, 1, Len(s) - 1)), s[Len(s)])
ClassCountsOf(m) ==
  LET results == [i \in 1..Len(IFC_CLASS_LIST) |->
                    [type |-> IFC_CLASS_LIST[i],
                     count |-> CountOf(m, IFC_CLASS_LIST[i])]]
      HasItems(e) == e.count > 0
  IN SortByCount(SelectSeq(results, HasItems))
ChipTypes == {classCounts[i].type : i \in 1..Len(classCounts)}

\* --------------------------------------------- visible-subset helpers
VisState ==
  [ref |-> visibleSubsetRef, vis |-> visSubset, visible |-> modelVisible,
   pick |-> pickables]

RECURSIVE RemoveFirst(_, _)
RemoveFirst(s, x) ==
  IF s = <<>> THEN <<>>
  ELSE IF Head(s) = x THEN Tail(s)
  ELSE <<Head(s)>> \o RemoveFirst(Tail(s), x)
\* A faulty variant: pushes without the `includes` test of 493, 505, 536.
PushAlways(s, x) == Append(s, x)
PushIfMissing(s, x) == IF x \in SeqToSet(s) THEN s ELSE Append(s, x)

\* The branches of rebuildVisibleSubset that show the original model again
\* (491-496, 503-508, 534-538).
ShowOriginal(vs, m) ==
  [vs EXCEPT !.visible = [vs.visible EXCEPT ![m] = TRUE],
             !.pick = PushIfMissing(vs.pick, <<"model", m>>)]

\* rebuildVisibleSubset (471-540) with hiddenIdsRef.current = hidden and
\* allProductIdsRef.current = allIds; subsetOk as above.
rebuildVisibleSubset(vs, m, hidden, allIds, subsetOk) ==
  LET removed == IF vs.ref # NoModel
                   THEN [vs EXCEPT
                           !.vis = [vs.vis EXCEPT ![m] = {}],
                           !.pick = RemoveFirst(vs.pick, <<"visible", vs.ref>>),
                           !.ref = NoModel]
                   ELSE vs
      visibleIds == allIds \ hidden
  IN IF hidden = {} THEN ShowOriginal(removed, m)
     ELSE IF allIds = {} THEN ShowOriginal(removed, m)
     ELSE IF visibleIds = {}
       THEN [removed EXCEPT !.visible = [removed.visible EXCEPT ![m] = FALSE],
                            !.pick = <<>>]
     ELSE IF subsetOk
       THEN [removed EXCEPT !.vis = [removed.vis EXCEPT ![m] = visibleIds],
                            !.visible = [removed.visible EXCEPT ![m] = FALSE],
                            !.pick = <<<<"visible", m>>>>,
                            !.ref = m]
     ELSE ShowOriginal(removed, m)

SetVis(vs) ==
  /\ visibleSubsetRef' = vs.ref
  /\ visSubset' = vs.vis
  /\ modelVisible' = vs.visible
  /\ pickables' = vs.pick

\* What a raycast against the pickable meshes can hit.
MeshIds(mesh) == IF mesh[1] = "visible" THEN visSubset[mesh[2]] ELSE ExpressIds(mesh[2])
PickChoices ==
  {<<>>} \cup UNION {{<<mesh[2], id>> : id \in MeshIds(mesh)} : mesh \in SeqToSet(pickables)}
\* The left click of a run points at the first product of a model or at
\* nothing; the right click may point at any product.
InspectChoices == {r \in PickChoices : r # <<>> => r[2] = r[1] + 1}


\* -------------------------------------------------------------- Init
\* The state after the first render, before the mount effect has run.
Init ==
  /\ version \in Versions
  /\ viewer = FALSE
  /\ modelID = NoModel
  /\ status = StatusInitial
  /\ properties = <<>>
  /\ clipEnabled = TRUE
  /\ hiddenTypes = {}
  /\ placingPlane = FALSE
  /\ classCounts = <<>>
  /\ selectedClassType = NoType
  /\ contextMenu = [visible |-> FALSE, hasSelection |-> FALSE]
  /\ placingPlaneRef = FALSE
  /\ selectedItemRef = <<>>
  /\ highlightSubsetRef = NoModel
  /\ transparencyCache = EmptyMap
  /\ hiddenIdsRef = {}
  /\ visibleSubsetRef = NoModel
  /\ allProductIdsRef = <<>>
  /\ typeCacheRef = EmptyMap
  /\ numModels = 0
  /\ modelVisible = [m \in ModelIds |-> TRUE]
  /\ pickables = <<>>
  /\ visSubset = [m \in ModelIds |-> {}]
  /\ hlSubset = [m \in ModelIds |-> {}]
  /\ materials = [m \in ModelIds |-> OrigMaterial(m)]
  /\ clipperActive = FALSE
  /\ planes = 0
  /\ selection = FALSE
  /\ itemsHidden = [m \in ModelIds |-> {}]
  /\ tasks = [i \in Slots |-> IdleTask]
  /\ events = 0
  /\ last = NoStep
  /\ lastInspect = <<>>

\* A user event: a click, a chip, a menu entry, a button, a file chosen.
UserEvent == events < MaxEvents /\ events' = events + 1

IsHl == version = "highlight" /\ viewer
IsFilter == version = "filter" /\ viewer

\* The values the handlers registered by the mount effect close over: the
\* effect has an empty dependency list (738), so handleClick and
\* handleContextMenu keep the state of the first render (281, 293).
MountModelID == NoModel
MountSelectedClassType == NoType

\* useEffect (39-84, 542-738): creates the viewer once.
MountViewer ==
  /\ UNCHANGED events
  /\ ~viewer
  /\ viewer' = TRUE
  /\ clipperActive' = TRUE
  /\ last' = NoStep
  /\ UNCHANGED <<version, reactVars, refVars, numModels, modelVisible,
                 pickables, visSubset, hlSubset, materials, planes, selection,
                 itemsHidden, tasks, lastInspect>>

\* viewer.clipper.createPlane(): needs an enabled clipper and a ray that
\* hits a pickable mesh.
CanCreatePlane == clipperActive /\ pickables # <<>> /\ planes < MaxPlanes
\* The file chosen in the file input: file names are interchangeable, so
\* the first file chosen is taken to be "a.ifc".
FileChoice(file) == status = StatusInitial => file = "a.ifc"
LoadsPending == Cardinality({i \in Slots : tasks[i].pc = "loadIfcUrl"})
LoadInFlight == \E i \in Slots : tasks[i].op = "load"
\* The task of a handleLoadIfc call that has reached the await of loadIfcUrl.
LoadTask(file, sct) ==
  [NewTask("load", "loadIfcUrl", NoModel, sct, NoType, file, <<>>)
     EXCEPT !.fresh = ~LoadInFlight]

\* ------------------------------------ class-highlight version: loading
\* A faulty variant of the reset: clearClassHighlight of 758-760 is missing.
ResetHighlightWithoutClear ==
  [HlState EXCEPT !.cache = EmptyMap, !.sct = NoType]

\* handleLoadIfc (758-761, 768): the highlight state after the reset.
ResetHighlightForLoad ==
  LET st == IF modelID # NoModel
              THEN clearClassHighlight(HlState, visibleSubsetRef, modelID)
              ELSE HlState
  IN [st EXCEPT !.cache = EmptyMap, !.sct = NoType]

\* handleLoadIfc (750-773) up to the await of loadIfcUrl.
HandleLoadIfc(file) ==
  /\ UserEvent
  /\ IsHl /\ HasFree
  /\ FileChoice(file)
  /\ numModels + LoadsPending < MaxModels
  /\ planes' = 0
  /\ clipperActive' = FALSE
  /\ clipEnabled' = FALSE
  /\ SetHl(ResetHighlightForLoad)
  /\ hiddenIdsRef' = {}
  /\ visibleSubsetRef' = NoModel
  /\ allProductIdsRef' = <<>>
  /\ status' = StatusLoading
  /\ properties' = <<>>
  /\ typeCacheRef' = EmptyMap
  /\ tasks' = Spawn(LoadTask(file, selectedClassType), {"load", "click"})
  /\ lastInspect' = <<>>
  /\ last' = Step("handleLoadIfc:start", NoModel, file, "", ~LoadInFlight)
  /\ UNCHANGED <<version, viewer, modelID, hiddenTypes, placingPlane,
                 classCounts, contextMenu, placingPlaneRef, selectedItemRef,
                 numModels, modelVisible, pickables, visSubset, selection,
                 itemsHidden>>

\* A faulty variant of LoadFailed: the failure is swallowed without
\* setStatus.
LoadFailedSilently(i) ==
  /\ status' = status
  /\ tasks' = Finish(i)
  /\ last' = Step("handleLoadIfc", NoModel, tasks[i].arg, "noModel",
                  tasks[i].fresh)
  /\ UNCHANGED <<numModels, pickables, modelVisible, modelID>>

\* handleLoadIfc (774-777, 806-809; 99-102 in the filter version): no model,
\* or an exception caught, while task i awaited loadIfcUrl.
LoadFailed(i) ==
  /\ status' = StatusFailed
  /\ tasks' = Finish(i)
  /\ last' = Step("handleLoadIfc", NoModel, tasks[i].arg, "noModel",
                  tasks[i].fresh)
  /\ UNCHANGED <<numModels, pickables, modelVisible, modelID>>

\* handleLoadIfc (773-802, 806-812): loadIfcUrl settles; on a model the
\* handler runs on to the await inside updateClassCounts.
LoadIfcUrlResolve(i, outcome, shadowThrows) ==
  /\ UNCHANGED events
  /\ IsHl
  /\ tasks[i].op = "load" /\ tasks[i].pc = "loadIfcUrl"
  /\ IF outcome = "model"
       THEN /\ numModels' = numModels + 1
            /\ pickables' = Append(pickables, <<"model", numModels>>)
            /\ modelVisible' = [modelVisible EXCEPT ![numModels] = TRUE]
            /\ modelID' = numModels
            /\ IF shadowThrows
                 THEN /\ status' = StatusFailed
                      /\ tasks' = Finish(i)
                      /\ last' = Step("handleLoadIfc", numModels, tasks[i].arg,
                                      "postLoadThrew", tasks[i].fresh)
                 ELSE /\ status' = StatusLoaded(tasks[i].arg)
                      /\ tasks' = [tasks EXCEPT ![i].pc = "classCounts",
                                                ![i].mid = numModels]
                      /\ last' = NoStep
       ELSE LoadFailed(i)
  /\ UNCHANGED <<version, viewer, properties, clipEnabled, hiddenTypes,
                 placingPlane, classCounts, selectedClassType, contextMenu,
                 refVars, visSubset, hlSubset, materials, clipperActive,
                 planes, selection, itemsHidden, lastInspect>>

\* handleLoadIfc (802-805) with updateClassCounts (451-469): the counts
\* settle; the handler re-applies the class it captured when it started.
ClassCountsResolve(i, throws, subsetOk) ==
  /\ UNCHANGED events
  /\ IsHl
  /\ tasks[i].op = "load" /\ tasks[i].pc = "classCounts"
  /\ LET t == tasks[i]
     IN IF throws
          THEN /\ status' = StatusFailed
               /\ tasks' = Finish(i)
               /\ last' = Step("handleLoadIfc", t.mid, t.arg, "postLoadThrew",
                               t.fresh)
               /\ UNCHANGED <<classCounts, hlVars>>
          ELSE /\ classCounts' = ClassCountsOf(t.mid)
               /\ status' = status
               /\ IF t.sct = NoType
                    THEN /\ tasks' = Finish(i)
                         /\ last' = Step("handleLoadIfc", t.mid, t.arg,
                                         "loaded", t.fresh)
                         /\ UNCHANGED hlVars
                    ELSE IF t.sct \in DOMAIN typeCacheRef
                      THEN /\ SetHl(applyClassHighlight(
                                 HlState, visibleSubsetRef, t.mid, t.sct,
                                 typeCacheRef[t.sct], subsetOk))
                           /\ tasks' = Finish(i)
                           /\ last' = Step("handleLoadIfc", t.mid, t.arg,
                                           "reapplied", t.fresh)
                      ELSE /\ tasks' = [tasks EXCEPT ![i].pc = "typeIds",
                                                     ![i].ty = t.sct]
                           /\ last' = NoStep
                           /\ UNCHANGED hlVars
  /\ UNCHANGED <<version, viewer, modelID, properties, clipEnabled,
                 hiddenTypes, placingPlane, contextMenu, placingPlaneRef,
                 selectedItemRef, hiddenIdsRef, visibleSubsetRef, cacheVars,
                 numModels, modelVisible, pickables, visSubset, clipperActive,
                 planes, selection, itemsHidden, lastInspect>>

\* getTypeIds (348-363) settles inside applyClassHighlight (873-906), called
\* by handleLoadIfc (804) or handleHighlightClass (967).
TypeIdsResolve(i, throws, subsetOk) ==
  /\ UNCHANGED events
  /\ IsHl
  /\ tasks[i].pc = "typeIds"
  /\ LET t == tasks[i]
         ids == IF throws THEN {}
                ELSE normalizeIds(GetAllItemsOfType(t.mid, t.ty, FALSE))
         st == applyClassHighlight(HlState, visibleSubsetRef, t.mid, t.ty, ids,
                                   subsetOk)
     IN /\ typeCacheRef' = IF throws THEN typeCacheRef
                           ELSE (t.ty :> ids) @@ typeCacheRef
        /\ SetHl(st)
        /\ last' = Step(IF t.op = "load" THEN "handleLoadIfc"
                        ELSE "handleHighlightClass",
                        t.mid, IF t.op = "load" THEN t.arg ELSE t.ty,
                        IF t.op = "load" THEN "reapplied"
                        ELSE IF throws THEN "lookupThrew"
                        ELSE IF ids = {} THEN "noIds" ELSE "applied",
                        t.fresh)
  /\ tasks' = Finish(i)
  /\ UNCHANGED <<version, viewer, modelID, status, properties, clipEnabled,
                 hiddenTypes, placingPlane, classCounts, contextMenu,
                 placingPlaneRef, selectedItemRef, hiddenIdsRef,
                 visibleSubsetRef, allProductIdsRef, numModels, modelVisible,
                 pickables, visSubset, clipperActive, planes, selection,
                 itemsHidden, lastInspect>>

\* ----------------------------------- class-highlight version: the chips
\* handleHighlightClass (960-968) when it finishes without awaiting the
\* library: the chip of the selected class, or a class whose ids are cached.
HandleHighlightClass(type, subsetOk) ==
  /\ UserEvent
  /\ IsHl /\ modelID # NoModel
  /\ type \in ChipTypes
  /\ selectedClassType = type \/ type \in DOMAIN typeCacheRef
  /\ IF selectedClassType = type
       THEN /\ SetHl(clearClassHighlight(HlState, visibleSubsetRef, modelID))
            /\ last' = Step("handleHighlightClass", modelID, type, "cleared",
                            TRUE)
       ELSE /\ SetHl(applyClassHighlight(HlState, visibleSubsetRef, modelID,
                                         type, typeCacheRef[type], subsetOk))
            /\ last' = Step("handleHighlightClass", modelID, type,
                            IF typeCacheRef[type] = {} THEN "noIds"
                            ELSE "applied", TRUE)
  /\ UNCHANGED <<version, viewer, modelID, status, properties, clipEnabled,
                 hiddenTypes, placingPlane, classCounts, contextMenu,
                 placingPlaneRef, selectedItemRef, hiddenIdsRef,
                 visibleSubsetRef, cacheVars, numModels, modelVisible,
                 pickables, visSubset, clipperActive, planes, selection,
                 itemsHidden, tasks, lastInspect>>

\* handleHighlightClass (960-967) up to the await in getTypeIds (355).
HandleHighlightClassAwait(type) ==
  /\ UserEvent
  /\ IsHl /\ modelID # NoModel /\ HasFree
  /\ type \in ChipTypes
  /\ selectedClassType # type /\ type \notin DOMAIN typeCacheRef
  /\ tasks' = Spawn(NewTask("highlight", "typeIds", modelID, NoType, type, "",
                            <<>>), {})
  /\ last' = NoStep
  /\ UNCHANGED <<version, viewer, reactVars, refVars, libVars, lastInspect>>

\* The "Clear highlight" chip (1062-1075).
ClearHighlightChip ==
  /\ UserEvent
  /\ IsHl /\ modelID # NoModel
  /\ classCounts # <<>> /\ selectedClassType # NoType
  /\ SetHl(clearClassHighlight(HlState, visibleSubsetRef, modelID))
  /\ last' = NoStep
  /\ UNCHANGED <<version, viewer, modelID, status, properties, clipEnabled,
                 hiddenTypes, placingPlane, classCounts, contextMenu,
                 placingPlaneRef, selectedItemRef, hiddenIdsRef,
                 visibleSubsetRef, cacheVars, numModels, modelVisible,
                 pickables, visSubset, clipperActive, planes, selection,
                 itemsHidden, tasks, lastInspect>>


\* ------------------------- class-highlight version: the canvas handlers
\* The highlight state after lines 643-645 / 693-695, which read the values
\* the mount effect closed over.
ClearFromMountClosure ==
  IF MountSelectedClassType # NoType /\ MountModelID # NoModel
    THEN clearClassHighlight(HlState, visibleSubsetRef, MountModelID)
    ELSE HlState

\* A faulty variant of the placement branch: placement mode ends only when
\* a plane was created.
HandleClickPlacePlaneSticky(created) ==
  /\ UserEvent
  /\ IsHl /\ placingPlaneRef
  /\ created => CanCreatePlane
  /\ contextMenu' = [contextMenu EXCEPT !.visible = FALSE]
  /\ planes' = IF created THEN planes + 1 ELSE planes
  /\ placingPlaneRef' = ~created
  /\ placingPlane' = ~created
  /\ last' = Step("handleClick", NoModel, "",
                  IF created THEN "planeCreated" ELSE "noPlane", TRUE)
  /\ UNCHANGED <<version, viewer, modelID, status, properties, clipEnabled,
                 hiddenTypes, classCounts, selectedClassType, selectedItemRef,
                 highlightSubsetRef, transparencyCache, hiddenIdsRef,
                 visibleSubsetRef, cacheVars, numModels, modelVisible,
                 pickables, visSubset, hlSubset, materials, clipperActive,
                 selection, itemsHidden, tasks, lastInspect>>

\* handleClick (599-641) while a plane is being placed.
HandleClickPlacePlane(created) ==
  /\ UserEvent
  /\ IsHl /\ placingPlaneRef
  /\ created => CanCreatePlane
  /\ contextMenu' = [contextMenu EXCEPT !.visible = FALSE]
  /\ planes' = IF created THEN planes + 1 ELSE planes
  /\ placingPlaneRef' = FALSE
  /\ placingPlane' = FALSE
  /\ last' = Step("handleClick", NoModel, "",
                  IF created THEN "planeCreated" ELSE "noPlane", TRUE)
  /\ UNCHANGED <<version, viewer, modelID, status, properties, clipEnabled,
                 hiddenTypes, classCounts, selectedClassType, selectedItemRef,
                 highlightSubsetRef, transparencyCache, hiddenIdsRef,
                 visibleSubsetRef, cacheVars, numModels, modelVisible,
                 pickables, visSubset, hlSubset, materials, clipperActive,
                 selection, itemsHidden, tasks, lastInspect>>

\* handleClick (599-613, 643-648) up to the await of pickIfcItem.
HandleClick ==
  /\ UserEvent
  /\ IsHl /\ ~placingPlaneRef /\ HasFree
  /\ contextMenu' = [contextMenu EXCEPT !.visible = FALSE]
  /\ SetHl(ClearFromMountClosure)
  /\ tasks' = Spawn(NewTask("click", "pick", NoModel, NoType, NoType, "", <<>>),
                    {"click"})
  /\ last' = NoStep
  /\ UNCHANGED <<version, viewer, modelID, status, properties, clipEnabled,
                 hiddenTypes, placingPlane, classCounts, placingPlaneRef,
                 selectedItemRef, hiddenIdsRef, visibleSubsetRef, cacheVars,
                 numModels, modelVisible, pickables, visSubset, clipperActive,
                 planes, selection, itemsHidden, lastInspect>>

\* handleClick (648-669): pickIfcItem settles, castRayIfc (viaRay) is the
\* fallback; without a result the selection and the properties are cleared.
ClickPickResolve(i, result, viaRay) ==
  /\ UNCHANGED events
  /\ IsHl
  /\ tasks[i].op = "click" /\ tasks[i].pc = "pick"
  /\ result \in InspectChoices
  /\ IF result = <<>>
       THEN /\ ~viaRay
            /\ selection' = FALSE
            /\ properties' = <<>>
            /\ lastInspect' = IF tasks[i].fresh THEN <<>> ELSE lastInspect
            /\ tasks' = Finish(i)
            /\ last' = NoStep
       ELSE /\ selection' = IF viaRay THEN selection ELSE TRUE
            /\ tasks' = [tasks EXCEPT ![i].pc = "props", ![i].sel = result]
            /\ last' = NoStep
            /\ UNCHANGED <<properties, lastInspect>>
  /\ UNCHANGED <<version, viewer, modelID, status, clipEnabled, hiddenTypes,
                 placingPlane, classCounts, selectedClassType, contextMenu,
                 refVars, numModels, modelVisible, pickables, visSubset,
                 hlSubset, materials, clipperActive, planes, itemsHidden>>

\* handleClick (669-670) with fetchProperties (402-449): the lookup settles
\* with the element's properties, or with null when both lookups failed.
ClickPropsResolve(i, found) ==
  /\ UNCHANGED events
  /\ IsHl
  /\ tasks[i].op = "click" /\ tasks[i].pc = "props"
  /\ properties' = IF found THEN tasks[i].sel ELSE <<>>
  /\ lastInspect' = IF tasks[i].fresh THEN properties' ELSE lastInspect
  /\ tasks' = Finish(i)
  /\ last' = NoStep
  /\ UNCHANGED <<version, viewer, modelID, status, clipEnabled, hiddenTypes,
                 placingPlane, classCounts, selectedClassType, contextMenu,
                 refVars, libVars>>

\* handleContextMenu (679-697) up to the await of pickIfcItem.
HandleContextMenu ==
  /\ UserEvent
  /\ IsHl /\ HasFree
  /\ SetHl(ClearFromMountClosure)
  /\ tasks' = Spawn(NewTask("context", "pick", NoModel, NoType, NoType, "",
                            <<>>), {})
  /\ last' = NoStep
  /\ UNCHANGED <<version, viewer, modelID, status, properties, clipEnabled,
                 hiddenTypes, placingPlane, classCounts, contextMenu,
                 placingPlaneRef, selectedItemRef, hiddenIdsRef,
                 visibleSubsetRef, cacheVars, numModels, modelVisible,
                 pickables, visSubset, clipperActive, planes, selection,
                 itemsHidden, lastInspect>>

\* handleContextMenu (697-723).
ContextPickResolve(i, result, viaRay) ==
  /\ UNCHANGED events
  /\ IsHl
  /\ tasks[i].op = "context" /\ tasks[i].pc = "pick"
  /\ result \in PickChoices
  /\ result = <<>> => ~viaRay
  /\ selection' = IF viaRay \/ result = <<>> THEN selection ELSE TRUE
  /\ selectedItemRef' = result
  /\ contextMenu' = [visible |-> TRUE, hasSelection |-> result # <<>>]
  /\ tasks' = Finish(i)
  /\ last' = NoStep
  /\ UNCHANGED <<version, viewer, modelID, status, properties, clipEnabled,
                 hiddenTypes, placingPlane, classCounts, selectedClassType,
                 placingPlaneRef, highlightSubsetRef, transparencyCache,
                 hiddenIdsRef, visibleSubsetRef, cacheVars, numModels,
                 modelVisible, pickables, visSubset, hlSubset, materials,
                 clipperActive, planes, itemsHidden, lastInspect>>

\* ----------------------------- class-highlight version: hide / show all
\* handleHideSelected (914-920) once allProductIdsRef.current = allIds.
HideSelectedBody(m, sel, allIds, subsetOk) ==
  LET all1 == IF sel[2] \notin allIds THEN allIds \cup {sel[2]} ELSE allIds
      hidden1 == hiddenIdsRef \cup {sel[2]}
  IN /\ allProductIdsRef' = <<all1>>
     /\ hiddenIdsRef' = hidden1
     /\ selection' = FALSE
     /\ contextMenu' = [contextMenu EXCEPT !.visible = FALSE]
     /\ SetVis(rebuildVisibleSubset(VisState, m, hidden1, all1, subsetOk))
     /\ last' = HideStep(m, sel[2], "hidden")
     /\ lastInspect' = lastInspect
     /\ UNCHANGED <<version, viewer, modelID, status, properties, clipEnabled,
                    hiddenTypes, placingPlane, classCounts, placingPlaneRef,
                    selectedItemRef, hlVars, typeCacheRef, numModels,
                    clipperActive, planes, itemsHidden>>

HideEnabled ==
  /\ IsHl /\ modelID # NoModel
  /\ contextMenu.visible /\ contextMenu.hasSelection
  /\ selectedItemRef # <<>>
  /\ selectedItemRef[1] = modelID

\* handleHideSelected (908-921) when the product ids are already cached.
HandleHideSelected(subsetOk) ==
  /\ UserEvent
  /\ HideEnabled
  /\ allProductIdsRef # <<>>
  /\ HideSelectedBody(modelID, selectedItemRef, allProductIdsRef[1], subsetOk)
  /\ UNCHANGED tasks

\* handleHideSelected (908-913) up to the first await of
\* ensureAllProductIds (323).
HandleHideSelectedAwait ==
  /\ UserEvent
  /\ HideEnabled /\ HasFree
  /\ allProductIdsRef = <<>>
  /\ tasks' = Spawn(NewTask("hide", "allIds", modelID, NoType, NoType, "",
                            selectedItemRef), {})
  /\ last' = NoStep
  /\ UNCHANGED <<version, viewer, reactVars, refVars, libVars, lastInspect>>

\* ensureAllProductIds (323-329, 344): the IFCPRODUCT query settles; an
\* empty answer leads to the per-class queries, a rejection ends the handler.
AllIdsResolve(i, outcome, subsetOk) ==
  /\ UNCHANGED events
  /\ IsHl
  /\ tasks[i].op = "hide" /\ tasks[i].pc = "allIds"
  /\ LET t == tasks[i]
         ids == normalizeIds(GetAllItemsOfType(t.mid, IFCPRODUCT,
                                               outcome = "inherited"))
     IN IF outcome = "throw"
          THEN /\ tasks' = Finish(i)
               /\ last' = HideStep(t.mid, t.sel[2], "rejected")
               /\ UNCHANGED <<version, viewer, reactVars, refVars, libVars,
                              lastInspect>>
          ELSE IF ids = {}
            THEN /\ tasks' = [tasks EXCEPT ![i].pc = "classIds"]
                 /\ last' = NoStep
                 /\ UNCHANGED <<version, viewer, reactVars, refVars, libVars,
                                lastInspect>>
            ELSE /\ HideSelectedBody(t.mid, t.sel, ids, subsetOk)
                 /\ tasks' = Finish(i)

\* ensureAllProductIds (330-344): the per-class queries settle and their
\* ids are merged.
ClassIdsResolve(i, throws, subsetOk) ==
  /\ UNCHANGED events
  /\ IsHl
  /\ tasks[i].op = "hide" /\ tasks[i].pc = "classIds"
  /\ LET t == tasks[i]
         merged == UNION {normalizeIds(GetAllItemsOfType(t.mid, c, FALSE)) :
                            c \in SeqToSet(IFC_CLASS_LIST)}
     IN IF throws
          THEN /\ last' = HideStep(t.mid, t.sel[2], "rejected")
               /\ UNCHANGED <<version, viewer, reactVars, refVars, libVars,
                              lastInspect>>
          ELSE HideSelectedBody(t.mid, t.sel, merged, subsetOk)
  /\ tasks' = Finish(i)

\* handleShowAll (923-929); rebuildVisibleSubset returns at 497 without
\* awaiting the library.
HandleShowAll ==
  /\ UserEvent
  /\ IsHl /\ modelID # NoModel
  /\ contextMenu.visible
  /\ hiddenIdsRef' = {}
  /\ contextMenu' = [contextMenu EXCEPT !.visible = FALSE]
  /\ SetVis(rebuildVisibleSubset(VisState, modelID, {}, {}, FALSE))
  /\ last' = Step("handleShowAll", modelID, "", "", TRUE)
  /\ UNCHANGED <<version, viewer, modelID, status, properties, clipEnabled,
                 hiddenTypes, placingPlane, classCounts, selectedClassType,
                 placingPlaneRef, selectedItemRef, highlightSubsetRef,
                 transparencyCache, cacheVars, numModels, hlSubset, materials,
                 clipperActive, planes, selection, itemsHidden, tasks,
                 lastInspect>>

\* ------------------------------ class-highlight version: section planes
\* A faulty variant of handleToggleClip: setClipEnabled of 937 is missing.
HandleToggleClipNoState ==
  /\ UserEvent
  /\ IsHl
  /\ clipperActive' = ~clipperActive
  /\ last' = NoStep
  /\ UNCHANGED <<version, viewer, modelID, status, properties, clipEnabled,
                 hiddenTypes, placingPlane, classCounts, selectedClassType,
                 contextMenu, refVars, numModels, modelVisible, pickables,
                 visSubset, hlSubset, materials, planes, selection,
                 itemsHidden, tasks, lastInspect>>

\* handleToggleClip (931-938).
HandleToggleClip ==
  /\ UserEvent
  /\ IsHl
  /\ clipperActive' = ~clipperActive
  /\ clipEnabled' = ~clipperActive
  /\ last' = NoStep
  /\ UNCHANGED <<version, viewer, modelID, status, properties, hiddenTypes,
                 placingPlane, classCounts, selectedClassType, contextMenu,
                 refVars, numModels, modelVisible, pickables, visSubset,
                 hlSubset, materials, planes, selection, itemsHidden, tasks,
                 lastInspect>>

\* handleAddPlane (940-949).
HandleAddPlane ==
  /\ UserEvent
  /\ IsHl /\ modelID # NoModel
  /\ clipperActive' = TRUE
  /\ clipEnabled' = TRUE
  /\ selection' = FALSE
  /\ placingPlaneRef' = TRUE
  /\ placingPlane' = TRUE
  /\ last' = Step("handleAddPlane", modelID, "", "", TRUE)
  /\ UNCHANGED <<version, viewer, modelID, status, properties, hiddenTypes,
                 classCounts, selectedClassType, contextMenu, selectedItemRef,
                 highlightSubsetRef, transparencyCache, hiddenIdsRef,
                 visibleSubsetRef, cacheVars, numModels, modelVisible,
                 pickables, visSubset, hlSubset, materials, planes,
                 itemsHidden, tasks, lastInspect>>

\* A faulty variant of handleClearPlanes: the ref of 956 is not reset.
HandleClearPlanesKeepsRef ==
  /\ UserEvent
  /\ IsHl
  /\ planes' = 0
  /\ placingPlane' = FALSE
  /\ last' = Step("handleClearPlanes", NoModel, "",
                  IF placingPlaneRef THEN "cancelled" ELSE "", TRUE)
  /\ UNCHANGED <<version, viewer, modelID, status, properties, clipEnabled,
                 hiddenTypes, classCounts, selectedClassType, contextMenu,
                 placingPlaneRef, selectedItemRef, highlightSubsetRef,
                 transparencyCache, hiddenIdsRef, visibleSubsetRef, cacheVars,
                 numModels, modelVisible, pickables, visSubset, hlSubset,
                 materials, clipperActive, selection, itemsHidden, tasks,
                 lastInspect>>

\* handleClearPlanes (951-958).
HandleClearPlanes ==
  /\ UserEvent
  /\ IsHl
  /\ planes' = 0
  /\ placingPlaneRef' = FALSE
  /\ placingPlane' = FALSE
  /\ last' = Step("handleClearPlanes", NoModel, "",
                  IF placingPlaneRef THEN "cancelled" ELSE "", TRUE)
  /\ UNCHANGED <<version, viewer, modelID, status, properties, clipEnabled,
                 hiddenTypes, classCounts, selectedClassType, contextMenu,
                 selectedItemRef, highlightSubsetRef, transparencyCache,
                 hiddenIdsRef, visibleSubsetRef, cacheVars, numModels,
                 modelVisible, pickables, visSubset, hlSubset, materials,
                 clipperActive, selection, itemsHidden, tasks, lastInspect>>


\* ------------------------------------------------------ filter version
hlOnlyVars == <<placingPlane, classCounts, selectedClassType, contextMenu,
                refVars, visSubset, hlSubset, materials>>

\* handleLoadIfc (86-95) up to the await of loadIfcUrl.
F_HandleLoadIfc(file) ==
  /\ UserEvent
  /\ IsFilter /\ HasFree
  /\ FileChoice(file)
  /\ numModels + LoadsPending < MaxModels
  /\ status' = StatusLoading
  /\ properties' = <<>>
  /\ lastInspect' = <<>>
  /\ tasks' = Spawn(LoadTask(file, NoType), {"load", "click"})
  /\ last' = Step("handleLoadIfc:start", NoModel, file, "", ~LoadInFlight)
  /\ UNCHANGED <<version, viewer, modelID, clipEnabled, hiddenTypes,
                 hlOnlyVars, numModels, modelVisible, pickables,
                 clipperActive, planes, selection, itemsHidden>>

\* handleLoadIfc (95-105): loadIfcUrl settles; reading model.modelID of a
\* missing model throws into the catch block like a rejection does.
F_LoadIfcUrlResolve(i, outcome, shadowThrows) ==
  /\ UNCHANGED events
  /\ IsFilter
  /\ tasks[i].op = "load" /\ tasks[i].pc = "loadIfcUrl"
  /\ IF outcome = "model"
       THEN /\ numModels' = numModels + 1
            /\ pickables' = Append(pickables, <<"model", numModels>>)
            /\ modelID' = numModels
            /\ status' = IF shadowThrows THEN StatusFailed
                         ELSE StatusLoaded(tasks[i].arg)
            /\ last' = Step("handleLoadIfc", numModels, tasks[i].arg,
                            IF shadowThrows THEN "postLoadThrew" ELSE "loaded",
                            tasks[i].fresh)
            /\ tasks' = Finish(i)
            /\ UNCHANGED modelVisible
       ELSE LoadFailed(i)
  /\ UNCHANGED <<version, viewer, properties, clipEnabled, hiddenTypes,
                 hlOnlyVars, clipperActive, planes, selection,
                 itemsHidden, lastInspect>>

\* handleClick (54-55) up to the await of pickIfcItem.
F_HandleClick ==
  /\ UserEvent
  /\ IsFilter /\ HasFree
  /\ tasks' = Spawn(NewTask("click", "pick", NoModel, NoType, NoType, "", <<>>),
                    {"click"})
  /\ last' = NoStep
  /\ UNCHANGED <<version, viewer, reactVars, refVars, libVars, lastInspect>>

\* handleClick (55-61): pickIfcItem settles.
F_ClickPickResolve(i, result) ==
  /\ UNCHANGED events
  /\ IsFilter
  /\ tasks[i].op = "click" /\ tasks[i].pc = "pick"
  /\ result \in InspectChoices
  /\ IF result = <<>>
       THEN /\ properties' = <<>>
            /\ lastInspect' = IF tasks[i].fresh THEN <<>> ELSE lastInspect
            /\ tasks' = Finish(i)
            /\ last' = NoStep
            /\ UNCHANGED selection
       ELSE /\ selection' = TRUE
            /\ tasks' = [tasks EXCEPT ![i].pc = "props", ![i].sel = result]
            /\ last' = NoStep
            /\ UNCHANGED <<properties, lastInspect>>
  /\ UNCHANGED <<version, viewer, modelID, status, clipEnabled, hiddenTypes,
                 hlOnlyVars, numModels, modelVisible, pickables,
                 clipperActive, planes, itemsHidden>>

\* handleClick (61-67): getProperties settles; a rejection is not caught
\* and leaves the panel as it is.
F_ClickPropsResolve(i, found) ==
  /\ UNCHANGED events
  /\ IsFilter
  /\ tasks[i].op = "click" /\ tasks[i].pc = "props"
  /\ properties' = IF found THEN tasks[i].sel ELSE properties
  /\ lastInspect' = IF tasks[i].fresh THEN properties' ELSE lastInspect
  /\ tasks' = Finish(i)
  /\ last' = NoStep
  /\ UNCHANGED <<version, viewer, modelID, status, clipEnabled, hiddenTypes,
                 hlOnlyVars, numModels, modelVisible, pickables,
                 clipperActive, planes, selection, itemsHidden>>

\* handleToggleClip (108-114).
F_HandleToggleClip ==
  /\ UserEvent
  /\ IsFilter
  /\ clipperActive' = ~clipEnabled
  /\ clipEnabled' = ~clipEnabled
  /\ last' = NoStep
  /\ UNCHANGED <<version, viewer, modelID, status, properties, hiddenTypes,
                 hlOnlyVars, numModels, modelVisible, pickables, planes,
                 selection, itemsHidden, tasks, lastInspect>>

\* handleAddPlane (116-121).
F_HandleAddPlane(created) ==
  /\ UserEvent
  /\ IsFilter
  /\ created => CanCreatePlane
  /\ planes' = IF created THEN planes + 1 ELSE planes
  /\ last' = Step("handleAddPlane", NoModel, "", IF created THEN "planeCreated"
                  ELSE "noPlane", TRUE)
  /\ UNCHANGED <<version, viewer, reactVars, refVars, numModels, modelVisible,
                 pickables, visSubset, hlSubset, materials, clipperActive,
                 selection, itemsHidden, tasks, lastInspect>>

\* handleClearPlanes (123-128).
F_HandleClearPlanes ==
  /\ UserEvent
  /\ IsFilter
  /\ planes' = 0
  /\ last' = Step("handleClearPlanes", NoModel, "", "", TRUE)
  /\ UNCHANGED <<version, viewer, reactVars, refVars, numModels, modelVisible,
                 pickables, visSubset, hlSubset, materials, clipperActive,
                 selection, itemsHidden, tasks, lastInspect>>

\* toggleFilter (130-135) up to the await of getAllItemsOfType; shouldHide
\* is computed from the hiddenTypes of the render that made the handler.
toggleFilter(type) ==
  /\ UserEvent
  /\ IsFilter /\ modelID # NoModel /\ HasFree
  /\ type \in SeqToSet(FILTERS)
  /\ tasks' = Spawn(NewTask("toggleFilter", "items", modelID, NoType, type,
                            IF type \in hiddenTypes THEN "show" ELSE "hide",
                            <<>>), {})
  /\ last' = NoStep
  /\ UNCHANGED <<version, viewer, reactVars, refVars, libVars, lastInspect>>

\* toggleFilter (135-143): the items settle; a rejection is not caught.
ToggleFilterResolve(i, throws) ==
  /\ UNCHANGED events
  /\ IsFilter
  /\ tasks[i].op = "toggleFilter" /\ tasks[i].pc = "items"
  /\ LET t == tasks[i]
         items == GetAllItemsOfType(t.mid, t.ty, FALSE)
     IN IF throws
          THEN /\ last' = NoStep
               /\ UNCHANGED <<hiddenTypes, itemsHidden>>
          ELSE /\ itemsHidden' =
                    [itemsHidden EXCEPT ![t.mid] =
                       IF t.arg = "hide" THEN @ \cup items ELSE @ \ items]
               /\ hiddenTypes' = IF t.arg = "hide" THEN hiddenTypes \cup {t.ty}
                                 ELSE hiddenTypes \ {t.ty}
               /\ last' = NoStep
  /\ tasks' = Finish(i)
  /\ UNCHANGED <<version, viewer, modelID, status, properties, clipEnabled,
                 hlOnlyVars, numModels, modelVisible, pickables,
                 clipperActive, planes, selection, lastInspect>>

\* ---------------------------------------------------------------- Next
Outcomes == {"model", "null", "throw"}

Next ==
  \/ MountViewer
  \/ \E f \in Files : HandleLoadIfc(f)
  \/ \E i \in Slots, o \in Outcomes, b \in BOOLEAN : LoadIfcUrlResolve(i, o, b)
  \/ \E i \in Slots, b, ok \in BOOLEAN : ClassCountsResolve(i, b, ok)
  \/ \E i \in Slots, b, ok \in BOOLEAN : TypeIdsResolve(i, b, ok)
  \/ \E t \in SeqToSet(IFC_CLASS_LIST), ok \in BOOLEAN : HandleHighlightClass(t, ok)
  \/ \E t \in SeqToSet(IFC_CLASS_LIST) : HandleHighlightClassAwait(t)
  \/ ClearHighlightChip
  \/ \E c \in BOOLEAN : HandleClickPlacePlane(c)
  \/ HandleClick
  \/ \E i \in Slots, r \in InspectChoices, v \in BOOLEAN : ClickPickResolve(i, r, v)
  \/ \E i \in Slots, b \in BOOLEAN : ClickPropsResolve(i, b)
  \/ HandleContextMenu
  \/ \E i \in Slots, r \in PickChoices, v \in BOOLEAN : ContextPickResolve(i, r, v)
  \/ \E ok \in BOOLEAN : HandleHideSelected(ok)
  \/ HandleHideSelectedAwait
  \/ \E i \in Slots, o \in {"inherited", "exact", "throw"}, ok \in BOOLEAN :
       AllIdsResolve(i, o, ok)
  \/ \E i \in Slots, b, ok \in BOOLEAN : ClassIdsResolve(i, b, ok)
  \/ HandleShowAll
  \/ HandleToggleClip
  \/ HandleAddPlane
  \/ HandleClearPlanes
  \/ \E f \in Files : F_HandleLoadIfc(f)
  \/ \E i \in Slots, o \in Outcomes, b \in BOOLEAN : F_LoadIfcUrlResolve(i, o, b)
  \/ F_HandleClick
  \/ \E i \in Slots, r \in InspectChoices : F_ClickPickResolve(i, r)
  \/ \E i \in Slots, b \in BOOLEAN : F_ClickPropsResolve(i, b)
  \/ F_HandleToggleClip
  \/ \E c \in BOOLEAN : F_HandleAddPlane(c)
  \/ F_HandleClearPlanes
  \/ \E t \in SeqToSet(FILTERS) : toggleFilter(t)
  \/ \E i \in Slots, b \in BOOLEAN : ToggleFilterResolve(i, b)

Spec == Init /\ [][Next]_vars

\* -------------------------------------------------------------- properties
\* The model the display mesh of model m belongs to, and its material.
DisplayMaterial(m) == materials[MeshModel(getDisplayMesh(visibleSubsetRef, m))]
Occurrences(s, x) == Cardinality({i \in 1..Len(s) : s[i] = x})
\* A canvas click, and what a click that performs regular selection does:
\* it creates no plane and starts a pick.
CanvasClick ==
  HandleClick \/ (\E c \in BOOLEAN : HandleClickPlacePlane(c)) \/ F_HandleClick
RegularSelection ==
  /\ planes' = planes
  /\ \E i \in Slots : IsIdle(i) /\ tasks'[i].op = "click" /\ tasks'[i].pc = "pick"

\* C1: in the class-highlight version, when handleHideSelected completes for
\* a right-clicked item of the current model, the item's id is in the
\* hidden-id set and, if a 'visible' subset was created, that subset holds
\* exactly the product ids of the model that are not hidden and the original
\* model is no longer visible.
C1_HideSelected ==
  (last.op = "handleHideSelected" /\ last.res = "hidden" /\ last.mid = modelID) =>
    /\ last.id \in hiddenIdsRef
    /\ visibleSubsetRef # NoModel =>
         /\ visSubset[visibleSubsetRef] = ExpressIds(last.mid) \ hiddenIdsRef
         /\ ~modelVisible[last.mid]
\* A hide has completed and a product that is not hidden is in no displayed
\* mesh: the subset lacks it and the original model is invisible.
C1_ProductLost ==
  /\ last.op = "handleHideSelected" /\ last.res = "hidden" /\ last.mid = modelID
  /\ visibleSubsetRef = modelID /\ ~modelVisible[modelID]
  /\ \E id \in ExpressIds(modelID) \ hiddenIdsRef : id \notin visSubset[modelID]

\* C2: after handleShowAll completes with a model loaded, the hidden-id set
\* is empty, no 'visible' subset is recorded, and the original model is
\* visible and occurs exactly once in the pickable list.
C2_ShowAll ==
  last.op = "handleShowAll" =>
    /\ hiddenIdsRef = {}
    /\ visibleSubsetRef = NoModel
    /\ modelVisible[modelID]
    /\ Occurrences(pickables, <<"model", modelID>>) = 1
\* Show all has completed after a Hide selected of the same model.
C2_ShowAllAfterHide ==
  /\ last.op = "handleShowAll"
  /\ allProductIdsRef # <<>>
  /\ visSubset[modelID] = {}

\* C3: while an element is in the hidden-id set (from Hide selected until
\* the next Show all or load) and the original model is replaced by the
\* rebuilt display, the element belongs to no displayed subset of the
\* current model, neither 'visible' nor 'class-highlight'.
C3_HiddenStaysHidden ==
  (version = "highlight" /\ modelID # NoModel /\ ~modelVisible[modelID]) =>
    \A e \in hiddenIdsRef :
      /\ e \notin hlSubset[modelID]
      /\ e \notin visSubset[modelID]

\* C4 (as amended): when handleHighlightClass(type) completes, then: for
\* the chip of the selected class no class is selected and no highlight
\* subset is recorded; for another class whose lookup yields ids, type is the
\* selected class and the display mesh is faded; for a lookup that fails or
\* yields nothing no class is selected; and a recorded highlight subset is the
\* one of the chip's model, built from the ids looked up for the one selected
\* class.
C4_ChipToggle ==
  last.op = "handleHighlightClass" =>
    /\ last.res = "cleared" =>
         selectedClassType = NoType /\ highlightSubsetRef = NoModel
    /\ last.res = "applied" =>
         /\ selectedClassType = last.arg
         /\ DisplayMaterial(last.mid) = FadedMaterial(FadeOpacity)
    /\ last.res \in {"noIds", "lookupThrew"} =>
         selectedClassType = NoType /\ highlightSubsetRef = NoModel
    /\ highlightSubsetRef # NoModel =>
         /\ highlightSubsetRef = last.mid
         /\ selectedClassType = last.arg
         /\ hlSubset[last.mid] = typeCacheRef[selectedClassType]
\* A chip of a class that was not selected has completed with a highlight.
C4_Applied ==
  /\ last.op = "handleHighlightClass" /\ last.res = "applied"
  /\ highlightSubsetRef = last.mid
\* C4 as stated: every chip of a class that is not the selected one makes
\* that class the selected class, with the rest of the model faded.
C4_AsStated ==
  (last.op = "handleHighlightClass" /\ last.res # "cleared") =>
    /\ selectedClassType = last.arg
    /\ DisplayMaterial(last.mid) = FadedMaterial(FadeOpacity)

\* C5: the transparency cache holds original material values only, and
\* when a chip has cleared the highlight the display mesh has its original
\* material again.
C5_RestoresOriginal ==
  /\ \A k \in DOMAIN transparencyCache : transparencyCache[k] = OrigMaterial(k)
  /\ (last.op = "handleHighlightClass" /\ last.res = "cleared") =>
       DisplayMaterial(last.mid) = OrigMaterial(last.mid)

\* C6 (as amended): every handleLoadIfc call sets status to 'Loading IFC...';
\* when a call completes during which no other handleLoadIfc call was in
\* flight, status is 'Loaded: <file name>' or 'Failed to load IFC.'; and when
\* loadIfcUrl throws or returns no model, status becomes 'Failed to load
\* IFC.' and modelID is unchanged.
C6_LoadStatus ==
  /\ [](/\ last.op = "handleLoadIfc:start" => status = StatusLoading
        /\ (last.op = "handleLoadIfc" /\ last.fresh) =>
             status \in {StatusLoaded(last.arg), StatusFailed}
        /\ (last.op = "handleLoadIfc" /\ last.res = "noModel") =>
             status = StatusFailed)
  /\ [][\A i \in Slots, o \in {"null", "throw"}, b \in BOOLEAN :
          (LoadIfcUrlResolve(i, o, b) \/ F_LoadIfcUrlResolve(i, o, b)) =>
            (modelID' = modelID /\ status' = StatusFailed)]_vars
\* A load that ran alone has failed after an earlier load had set modelID.
C6_FailedAfterLoaded ==
  /\ last.op = "handleLoadIfc" /\ last.res = "noModel" /\ last.fresh
  /\ modelID # NoModel
\* C6 as stated: once any handleLoadIfc call completes, status is
\* 'Loaded: <file name>' or 'Failed to load IFC.'.
C6_AsStated ==
  last.op = "handleLoadIfc" =>
    status \in {StatusLoaded(last.arg), StatusFailed}

\* C7: in the filter version, once every toggleFilter and load has
\* completed, the checkbox of a type with elements in the current model is
\* checked if and only if none of those elements is hidden.
C7_CheckboxReflectsShown ==
  (version = "filter" /\ AllIdle /\ modelID # NoModel) =>
    \A type \in SeqToSet(FILTERS) :
      LET items == GetAllItemsOfType(modelID, type, FALSE)
      IN items # {} =>
           ((type \notin hiddenTypes) <=> (items \cap itemsHidden[modelID] = {}))

\* C8: after handleAddPlane with a model loaded, placement mode is on and
\* clipping is enabled; a canvas click in placement mode creates at most one
\* plane, starts no pick, leaves the properties and the selection unchanged
\* and turns placement mode off; a click outside placement mode performs
\* regular selection.
C8_OneShotPlacement ==
  /\ []((version = "highlight" /\ last.op = "handleAddPlane") =>
          (placingPlane /\ placingPlaneRef /\ clipEnabled /\ clipperActive))
  /\ [][(IsHl /\ placingPlaneRef /\ CanvasClick) =>
          /\ planes' \in {planes, planes + 1}
          /\ tasks' = tasks
          /\ properties' = properties /\ selection' = selection
          /\ ~placingPlaneRef' /\ ~placingPlane']_vars
  /\ [][(IsHl /\ ~placingPlaneRef /\ CanvasClick) => RegularSelection]_vars
\* A click in placement mode has created no plane and ended the mode.
C8_PlacedNothing ==
  /\ last.op = "handleClick" /\ last.res = "noPlane"
  /\ ~placingPlaneRef /\ ~placingPlane /\ clipEnabled

\* C9: after handleClearPlanes the clipper has no planes and placingPlane
\* and placingPlaneRef are false; the canvas click that follows performs
\* regular selection.
C9_ClearPlanes ==
  /\ [](last.op = "handleClearPlanes" =>
          (planes = 0 /\ ~placingPlane /\ ~placingPlaneRef))
  /\ [][(last.op = "handleClearPlanes" /\ CanvasClick) => RegularSelection]_vars
\* Clear planes has cancelled a pending placement.
C9_Cancelled ==
  /\ last.op = "handleClearPlanes" /\ last.res = "cancelled"
  /\ ~placingPlaneRef

\* C10: once every click handler and lookup has settled, the displayed
\* properties are those the most recent canvas click resolved to, or null
\* if a load started after it.
C10_PanelShowsLastInspected ==
  (version = "highlight" /\ AllIdle) => properties = lastInspect
\* C11: whenever a viewer exists and no handler is mid-execution, the
\* clipEnabled state equals viewer.clipper.active, in both versions.
C11_ClipMirrors ==
  (viewer /\ AllIdle) => clipEnabled = clipperActive
\* Clipping is on again after a load had switched it off, with no placement
\* pending and every handler settled.
C11_EnabledAfterLoad ==
  /\ version = "highlight" /\ AllIdle /\ modelID # NoModel
  /\ clipEnabled /\ clipperActive /\ ~placingPlaneRef

\* C12: when a handleLoadIfc call completes that ran with no other load in
\* flight, status is 'Loaded: <file name>' if and only if the call set
\* modelID to the model it loaded, and with 'Failed to load IFC.' the call
\* has not changed modelID.
C12_StatusAgreesWithModelID ==
  (last.op = "handleLoadIfc" /\ last.fresh) =>
    /\ (status = StatusLoaded(last.arg)) <=> (last.mid # NoModel)
    /\ status = StatusFailed => last.mid = NoModel

\* C13: in the class-highlight version, a canvas click outside placement
\* mode, or a right-click, made while a class is highlighted on the loaded
\* model clears the highlight before the pick: selectedClassType becomes
\* null and the highlight subset is removed.
C13_ClicksClearHighlight ==
  [][(/\ IsHl /\ modelID # NoModel
      /\ selectedClassType # NoType /\ highlightSubsetRef = modelID
      /\ (HandleClick \/ HandleContextMenu)) =>
       (/\ selectedClassType' = NoType
        /\ highlightSubsetRef' = NoModel
        /\ hlSubset'[modelID] = {})]_vars

\* A handleLoadIfc call returns in this step after a successful load.
LoadCompletes(i) ==
  /\ tasks[i].op = "load" /\ tasks'[i].op = "idle"
  /\ last'.op = "handleLoadIfc" /\ last'.res \in {"loaded", "reapplied"}

\* C14 (as amended): when handleLoadIfc starts, selectedClassType is null
\* and no 'class-highlight' subset is recorded; when it completes after a
\* successful load, a call started with no class selected leaves the
\* highlight as it is, and a call started with a class selected has applied
\* that class to the new model again: it is the selected class, or no class
\* is selected and no subset is recorded (its lookup gave no ids), and a
\* recorded subset is the new model's.
C14_LoadHighlight ==
  /\ []((version = "highlight" /\ last.op = "handleLoadIfc:start") =>
          (selectedClassType = NoType /\ highlightSubsetRef = NoModel))
  /\ [][\A i \in Slots : (IsHl /\ LoadCompletes(i)) =>
          IF tasks[i].sct = NoType
            THEN /\ last'.res = "loaded"
                 /\ selectedClassType' = selectedClassType
                 /\ highlightSubsetRef' = highlightSubsetRef
            ELSE /\ last'.res = "reapplied"
                 /\ \/ selectedClassType' = tasks[i].sct
                    \/ selectedClassType' = NoType /\ highlightSubsetRef' = NoModel
                 /\ highlightSubsetRef' \in {NoModel, tasks[i].mid}]_vars
\* A load has completed with the class of the previous model highlighted
\* again on the new model.
C14_Reapplied ==
  /\ last.op = "handleLoadIfc" /\ last.res = "reapplied"
  /\ last.mid = modelID /\ modelID > 0
  /\ selectedClassType # NoType /\ highlightSubsetRef = modelID
\* C14 as stated: when handleLoadIfc completes after a successful load,
\* selectedClassType is null and no 'class-highlight' subset is recorded,
\* even if a class was selected when the load started.
C14_AsStated ==
  [][\A i \in Slots : (IsHl /\ LoadCompletes(i) /\ tasks[i].sct # NoType) =>
       (selectedClassType' = NoType /\ highlightSubsetRef' = NoModel)]_vars

\* The two answers ensureAllProductIds (318-345) can store for model m: the
\* IFCPRODUCT query's, or the union of the listed classes' ids.
AllProductIdsOf(m) ==
  {ExpressIds(m),
   UNION {normalizeIds(GetAllItemsOfType(m, IFC_CLASS_LIST[k], FALSE)) :
            k \in 1..Len(IFC_CLASS_LIST)}}
\* Every entry of the two id caches was obtained from model m; before the
\* load has a model (m = NoModel) the caches hold nothing.
CachesHoldModel(m) ==
  /\ \A ty \in DOMAIN typeCacheRef :
       /\ m # NoModel
       /\ typeCacheRef[ty] = normalizeIds(GetAllItemsOfType(m, ty, FALSE))
  /\ allProductIdsRef # <<>> =>
       (m # NoModel /\ allProductIdsRef[1] \in AllProductIdsOf(m))

\* C15: id caches never serve a previous model.  From the start of a file
\* load that no other load overlaps until that load completes, and in the
\* state in which it completes, every entry of typeCacheRef and of
\* allProductIdsRef holds ids obtained from the model of that load, whatever
\* lookups were in flight when the load reset the caches.
C15_CachesServeLatestLoad ==
  /\ \A i \in Slots :
       (IsHl /\ tasks[i].op = "load" /\ tasks[i].fresh) =>
         CachesHoldModel(tasks[i].mid)
  /\ (IsHl /\ ~LoadInFlight /\ last.op = "handleLoadIfc" /\ last.fresh) =>
       CachesHoldModel(last.mid)
\* C15: the only load in flight still awaits loadIfcUrl, and a getTypeIds
\* lookup started before it has stored the first model's wall in the cache.
C15_StaleEntry ==
  /\ version = "highlight"
  /\ \E i \in Slots : /\ tasks[i].op = "load" /\ tasks[i].fresh
                      /\ tasks[i].pc = "loadIfcUrl"
  /\ modelID = 0
  /\ IFCWALL \in DOMAIN typeCacheRef /\ typeCacheRef[IFCWALL] = {1}

\* C16: class counts describe the loaded model.  Once every pending
\* handleLoadIfc call has completed, the last of them normally and none
\* leaving the status 'Failed to load IFC.', classCounts is the list
\* updateClassCounts computes from the model whose id is modelID, however two
\* overlapping loads and their count queries were interleaved.
C16_CountsOfLoadedModel ==
  (/\ version = "highlight" /\ ~LoadInFlight
   /\ last.op = "handleLoadIfc" /\ last.res \in {"loaded", "reapplied"}
   /\ status # StatusFailed) =>
     (modelID # NoModel /\ classCounts = ClassCountsOf(modelID))
\* C16: two overlapping loads have both completed, and the chips list the
\* classes of the first model while modelID names the second.
C16_CountsOfOtherModel ==
  /\ version = "highlight" /\ ~LoadInFlight
  /\ last.op = "handleLoadIfc" /\ last.res = "loaded" /\ ~last.fresh
  /\ status = StatusLoaded("b.ifc")
  /\ modelID = 1 /\ last.mid = 0
  /\ classCounts = ClassCountsOf(0) /\ classCounts # ClassCountsOf(1)
====
